---------------------------- MODULE Spec2Model ----------------------------
(***************************************************************************)
(* Opportunity scoring and decision pipeline of product_arbitrage_suite:   *)
(* DiscoveryValidator (core/discovery_validator.py), CompetitorAnalyzer    *)
(* (core/competitor_analyzer.py), MarketAnalyzer (core/market_analyzer.py) *)
(* and Translator (core/translator.py).                                    *)
(*                                                                         *)
(* Python floats are modelled as exact rationals [n |-> num, d |-> den]    *)
(* in lowest terms; float('inf') is the extended rational 1/0 and a        *)
(* ZeroDivisionError is the marker 0/0.  For the integer inputs of the     *)
(* model every threshold comparison of the correctly rounded float         *)
(* quotient agrees with the comparison of the exact quotient.              *)
(***************************************************************************)
EXTENDS Integers, Sequences, FiniteSets, TLC

VARIABLES
    test_input,     \* <<impressions, clicks, conversions, total_spend>>
    test_call,      \* "none" | "pending" | "returned" | "raised"
    results,        \* <<TestResult>> returned by that call, <<>> if none
    market_pc,      \* position inside analyze_market
    market_args,    \* arguments of the running analyze_market call
    search_idx,     \* index of the next search variation (1-based)
    competitors,    \* local list built by _search_google_competitors
    analysis,       \* the analysis dictionary of analyze_market
    fetch_log,      \* the source queries of this call, in order, each
                    \* [source, ok, page, term, slept]: what was asked, what
                    \* came back, the search variation it was, and whether
                    \* time.sleep(2) followed it
    lookup_args,    \* [niche, target_market] of a MarketAnalyzer call
    lookup_pc,      \* "none" | "pending" | the MarketAnalyzer method called
    lookup_result,  \* what that method returned, <<>> if none
    scale_args,     \* [scale_multiplier] of calculate_scale_up_budget
    scale_call,     \* "none" | "returned" | "raised"
    scale_result,   \* <<recommendation>> it returned, <<>> if none
    pricing_args,   \* [avg_price, market_multiplier] of a call of
                    \* get_pricing_recommendation; avg_price <<>> if the
                    \* analysis has no such key
    pricing_pc,     \* "none" | "pending" | "returned" | "raised"
    pricing_result, \* <<recommendation>> it returned, <<>> if none
    quick_args,     \* [competitor_count, estimated_demand]
    quick_pc,       \* "none" | "pending" | "returned"
    quick_result,   \* <<result>> of quick_validation_check, <<>> if none
    heap,           \* the dict objects alive: reference -> components dict
    funnel_blueprint, \* the caller's blueprint: a dict whose 'components'
                    \* entry is a reference into heap
    blueprint_en,   \* the components the blueprint held before the call
    translator_args, \* [target_language, dialect, adjust_price]
    translator_pc,  \* "none" | "pending" | the Translator method called
    translator_result \* what that method returned, <<>> if none

vars == <<test_input, test_call, results, market_pc, market_args, search_idx,
          competitors, analysis, fetch_log, lookup_args, lookup_pc,
          lookup_result, scale_args, scale_call, scale_result, pricing_args, pricing_pc,
          pricing_result, quick_args, quick_pc, quick_result, heap,
          funnel_blueprint, blueprint_en, translator_args, translator_pc,
          translator_result>>

validator_vars == <<test_input, test_call, results, scale_args, scale_call,
                    scale_result>>
pricing_vars == <<pricing_args, pricing_pc, pricing_result>>
quick_vars == <<quick_args, quick_pc, quick_result>>
translator_vars == <<heap, funnel_blueprint, blueprint_en, translator_args,
                     translator_pc, translator_result>>
market_vars == <<market_pc, market_args, search_idx, competitors, analysis,
                 fetch_log>>
lookup_vars == <<lookup_args, lookup_pc, lookup_result>>

-----------------------------------------------------------------------------
(* Exact arithmetic standing for Python's float arithmetic.                *)

RECURSIVE GCD(_, _)
GCD(a, b) == IF b = 0 THEN a ELSE GCD(b, a % b)

Abs(x) == IF x < 0 THEN -x ELSE x

\* float('inf')
Inf == [n |-> 1, d |-> 0]

\* the marker of a raised ZeroDivisionError
DivError == [n |-> 0, d |-> 0]

\* the rational a/b (b > 0) in lowest terms with a positive denominator
Rat(a, b) ==
    LET g == GCD(Abs(a), b)
    IN  [n |-> a \div g, d |-> b \div g]

\* an int (or integral float) as a rational
FromInt(a) == [n |-> a, d |-> 1]

\* Python's a / b on non-negative ints/floats: raises when b = 0
Div(a, b) == IF b = 0 THEN DivError ELSE Rat(a, b)

\* x <= y and x >= y on extended rationals (never applied to DivError)
Leq(x, y) == x.n * y.d <= y.n * x.d
Geq(x, y) == Leq(y, x)

\* x < y and x > y on rationals
Lt(x, y) == x.n * y.d < y.n * x.d
Gt(x, y) == Lt(y, x)

IsError(x) == x = DivError

\* x * y, x - y, |x| and x / y (y > 0) on rationals
Mul(x, y) == Rat(x.n * y.n, x.d * y.d)
Sub(x, y) == Rat(x.n * y.d - y.n * x.d, x.d * y.d)
AbsRat(x) == [n |-> Abs(x.n), d |-> x.d]
DivRat(x, y) == Rat(x.n * y.d, x.d * y.n)

\* float('nan')
NaN == [n |-> 0, d |-> -1]

\* x * y where y may be float('inf') and x is a non-negative rational
MulExt(x, y) ==
    IF y = Inf THEN (IF x.n = 0 THEN NaN ELSE Inf)
    ELSE Mul(x, y)

\* int(x): truncation towards zero
Trunc(x) == IF x.n >= 0 THEN x.n \div x.d ELSE -((-x.n) \div x.d)

\* math.floor(x)
Floor(x) == x.n \div x.d

\* round(x) and the '.0f' format: to the nearest integer, a tie to the even
\* one
RoundHalfEven(x) ==
    LET f == Floor(x)
        r == Sub(x, FromInt(f))
    IN  IF 2 * r.n < r.d THEN f
        ELSE IF 2 * r.n > r.d THEN f + 1
        ELSE IF f % 2 = 0 THEN f ELSE f + 1

-----------------------------------------------------------------------------
(* DiscoveryValidator.__init__: defaults and success thresholds.           *)

daily_budget == 15
min_clicks == 50
min_ctr == Rat(2, 100)
max_cpa == FromInt(15)
\* no minimum conversion rate
NoMinConversionRate == FromInt(0)

min_conversion_rate == Rat(1, 100)

RecommendationGo ==
    "SCALE: Product shows strong potential. Increase budget 3x and continue monitoring."
RecommendationOptimize ==
    "OPTIMIZE: Some promise but needs improvement. Test different ad creative or adjust landing page."
RecommendationNoGo ==
    "STOP: Product not performing. Consider different niche or market."

-----------------------------------------------------------------------------
(* DiscoveryValidator.analyze_test_results                                 *)

\* Metrics with cpa defaulting to 0, like the other metrics
MetricsCpaZero(impressions, clicks, conversions, total_spend) ==
    [ctr             |-> IF impressions > 0 THEN Div(clicks, impressions)
                         ELSE FromInt(0),
     conversion_rate |-> IF clicks > 0 THEN Div(conversions, clicks)
                         ELSE FromInt(0),
     cpa             |-> IF conversions > 0 THEN Div(total_spend, conversions)
                         ELSE FromInt(0),
     cost_per_click  |-> IF clicks > 0 THEN Div(total_spend, clicks)
                         ELSE FromInt(0)]

\* Metrics with the ctr division left unguarded
MetricsUnguardedCtr(impressions, clicks, conversions, total_spend) ==
    [ctr             |-> Div(clicks, impressions),
     conversion_rate |-> IF clicks > 0 THEN Div(conversions, clicks)
                         ELSE FromInt(0),
     cpa             |-> IF conversions > 0 THEN Div(total_spend, conversions)
                         ELSE Inf,
     cost_per_click  |-> IF clicks > 0 THEN Div(total_spend, clicks)
                         ELSE FromInt(0)]

\* lines 109-113: the four metrics, each division behind its guard
Metrics(impressions, clicks, conversions, total_spend) ==
    [ctr             |-> IF impressions > 0 THEN Div(clicks, impressions)
                         ELSE FromInt(0),
     conversion_rate |-> IF clicks > 0 THEN Div(conversions, clicks)
                         ELSE FromInt(0),
     cpa             |-> IF conversions > 0 THEN Div(total_spend, conversions)
                         ELSE Inf,
     cost_per_click  |-> IF clicks > 0 THEN Div(total_spend, clicks)
                         ELSE FromInt(0)]

\* PassedCriteria with strict threshold comparisons
PassedCriteriaStrict(clicks, conversions, m) ==
    [sufficient_clicks    |-> clicks > min_clicks,
     ctr_good             |-> Gt(m.ctr, min_ctr),
     cpa_good             |-> IF conversions > 0 THEN Lt(m.cpa, max_cpa)
                              ELSE FALSE,
     conversion_rate_good |-> Gt(m.conversion_rate, min_conversion_rate)]

\* lines 126-131: the four criteria
PassedCriteria(clicks, conversions, m) ==
    [sufficient_clicks    |-> clicks >= min_clicks,
     ctr_good             |-> Geq(m.ctr, min_ctr),
     cpa_good             |-> IF conversions > 0 THEN Leq(m.cpa, max_cpa)
                              ELSE FALSE,
     conversion_rate_good |-> Geq(m.conversion_rate, min_conversion_rate)]

\* line 147: sum(results['passed_criteria'].values())
PassedCount(pc) ==
    (IF pc.sufficient_clicks THEN 1 ELSE 0)
  + (IF pc.ctr_good THEN 1 ELSE 0)
  + (IF pc.cpa_good THEN 1 ELSE 0)
  + (IF pc.conversion_rate_good THEN 1 ELSE 0)

\* Decide requiring all four criteria for GO
DecideAllFour(r, passed_count) ==
    IF passed_count > 3
    THEN [r EXCEPT !.decision = "GO", !.recommendation = RecommendationGo]
    ELSE IF passed_count = 2
    THEN [r EXCEPT !.decision = "OPTIMIZE",
                   !.recommendation = RecommendationOptimize]
    ELSE [r EXCEPT !.decision = "NO-GO",
                   !.recommendation = RecommendationNoGo]

\* Decide with the last branch an elif on passed_count = 1
DecideNoElse(r, passed_count) ==
    IF passed_count >= 3
    THEN [r EXCEPT !.decision = "GO", !.recommendation = RecommendationGo]
    ELSE IF passed_count = 2
    THEN [r EXCEPT !.decision = "OPTIMIZE",
                   !.recommendation = RecommendationOptimize]
    ELSE IF passed_count = 1
    THEN [r EXCEPT !.decision = "NO-GO",
                   !.recommendation = RecommendationNoGo]
    ELSE r

\* Decide with GO from two criteria on
DecideGoFromTwo(r, passed_count) ==
    IF passed_count >= 2
    THEN [r EXCEPT !.decision = "GO", !.recommendation = RecommendationGo]
    ELSE IF passed_count = 1
    THEN [r EXCEPT !.decision = "OPTIMIZE",
                   !.recommendation = RecommendationOptimize]
    ELSE [r EXCEPT !.decision = "NO-GO",
                   !.recommendation = RecommendationNoGo]

\* lines 149-157: the branch taken overwrites the placeholder decision
Decide(r, passed_count) ==
    IF passed_count >= 3
    THEN [r EXCEPT !.decision = "GO", !.recommendation = RecommendationGo]
    ELSE IF passed_count = 2
    THEN [r EXCEPT !.decision = "OPTIMIZE",
                   !.recommendation = RecommendationOptimize]
    ELSE [r EXCEPT !.decision = "NO-GO",
                   !.recommendation = RecommendationNoGo]

\* lines 115-134 then 146-162: the dictionary that is returned
analyze_test_results(impressions, clicks, conversions, total_spend) ==
    LET m  == Metrics(impressions, clicks, conversions, total_spend)
        r0 == [impressions     |-> impressions,
               clicks          |-> clicks,
               conversions     |-> conversions,
               total_spend     |-> total_spend,
               metrics         |-> m,
               passed_criteria |-> PassedCriteria(clicks, conversions, m),
               decision        |-> "unknown",
               recommendation  |-> ""]
    IN  Decide(r0, PassedCount(r0.passed_criteria))

\* a ZeroDivisionError raised while the metrics are computed
AnalyzeRaises(impressions, clicks, conversions, total_spend) ==
    LET m == Metrics(impressions, clicks, conversions, total_spend)
    IN  \/ IsError(m.ctr)
        \/ IsError(m.conversion_rate)
        \/ IsError(m.cpa)
        \/ IsError(m.cost_per_click)

-----------------------------------------------------------------------------
(* Inputs of the discovery test evaluation.                                *)

MaxClicks == 101
MaxConversions == 2
ImpressionStep == 500
MaxImpressionSteps == 11
SpendStep == 5
MaxSpendSteps == 7

\* the two evaluations worked out in the documentation
DocumentedCases == {<<10000, 60, 2, 40>>, <<5000, 150, 10, 80>>}

TestInputs ==
    DocumentedCases \cup
    { <<ImpressionStep * i, c, v, SpendStep * s>> :
        i \in 0..MaxImpressionSteps, c \in 0..MaxClicks,
        v \in 0..MaxConversions, s \in 0..MaxSpendSteps }

\* the call analyze_test_results(*test_input): it returns or it raises
AnalyzeTestResults ==
    /\ test_call = "pending"
    /\ LET inp == test_input
       IN  IF AnalyzeRaises(inp[1], inp[2], inp[3], inp[4])
           THEN /\ test_call' = "raised"
                /\ results' = <<>>
           ELSE /\ test_call' = "returned"
                /\ results' =
                     <<analyze_test_results(inp[1], inp[2], inp[3], inp[4])>>
    /\ UNCHANGED <<test_input, scale_args, scale_call, scale_result, market_vars,
                   lookup_vars, pricing_vars, quick_vars, translator_vars>>

-----------------------------------------------------------------------------
(* DiscoveryValidator.calculate_scale_up_budget                            *)

DefaultScaleMultiplier == 3

\* the projection with a guard on cost_per_click: no clicks are estimated
\* when a click costs nothing, and the budget is taken as spent
ScaleUpGuardedCpc(current_metrics, scale_multiplier) ==
    LET new_daily_budget == Mul(FromInt(daily_budget), scale_multiplier)
    IN  [raised                      |-> FALSE,
         current_daily_budget        |-> FromInt(daily_budget),
         new_daily_budget            |-> new_daily_budget,
         scale_multiplier            |-> scale_multiplier,
         estimated_daily_conversions |-> FromInt(0),
         estimated_daily_cost        |-> new_daily_budget,
         estimated_daily_profit      |-> 0]

\* the projection with the cost estimated per click instead of per
\* conversion
ScaleUpCostPerClick(current_metrics, scale_multiplier) ==
    LET m == current_metrics.metrics
        new_daily_budget == Mul(FromInt(daily_budget), scale_multiplier)
    IN  IF m.cost_per_click.n = 0
        THEN [raised |-> TRUE, error |-> "ZeroDivisionError"]
        ELSE LET clicks_per_day == DivRat(new_daily_budget, m.cost_per_click)
                 conversions_per_day == Mul(clicks_per_day, m.conversion_rate)
             IN  [raised                      |-> FALSE,
                  current_daily_budget        |-> FromInt(daily_budget),
                  new_daily_budget            |-> new_daily_budget,
                  scale_multiplier            |-> scale_multiplier,
                  estimated_daily_conversions |-> conversions_per_day,
                  estimated_daily_cost        |-> MulExt(clicks_per_day, m.cpa),
                  estimated_daily_profit      |-> 0]

\* lines 179-197; the division of line 186 raises when cost_per_click is 0
calculate_scale_up_budget(current_metrics, scale_multiplier) ==
    LET m == current_metrics.metrics
        cpa == m.cpa
        conversion_rate == m.conversion_rate
        new_daily_budget == Mul(FromInt(daily_budget), scale_multiplier)
    IN  IF m.cost_per_click.n = 0
        THEN [raised |-> TRUE, error |-> "ZeroDivisionError"]
        ELSE LET estimated_clicks_per_day ==
                     DivRat(new_daily_budget, m.cost_per_click)
                 estimated_conversions_per_day ==
                     Mul(estimated_clicks_per_day, conversion_rate)
                 estimated_daily_cost ==
                     MulExt(estimated_conversions_per_day, cpa)
             IN  [raised                      |-> FALSE,
                  current_daily_budget        |-> FromInt(daily_budget),
                  new_daily_budget            |-> new_daily_budget,
                  scale_multiplier            |-> scale_multiplier,
                  estimated_daily_conversions |-> estimated_conversions_per_day,
                  estimated_daily_cost        |-> estimated_daily_cost,
                  estimated_daily_profit      |-> 0]

\* the scale multipliers asked for: the default and two others
ScaleMultipliers == {FromInt(DefaultScaleMultiplier), FromInt(1), Rat(3, 2)}

\* the call calculate_scale_up_budget(results, scale_multiplier) on the
\* results of the evaluation
CalculateScaleUpBudget ==
    /\ test_call = "returned"
    /\ scale_call = "none"
    /\ \E scale_multiplier \in ScaleMultipliers :
         LET out == calculate_scale_up_budget(results[1], scale_multiplier)
         IN  /\ scale_args' = [scale_multiplier |-> scale_multiplier]
             /\ scale_result' = <<out>>
             /\ scale_call' = IF out.raised THEN "raised" ELSE "returned"
    /\ UNCHANGED <<test_input, test_call, results, market_vars, lookup_vars,
                   pricing_vars, quick_vars, translator_vars>>

-----------------------------------------------------------------------------
(* CompetitorAnalyzer: saturation and live-mode opportunity score.         *)

Min(a, b) == IF a < b THEN a ELSE b
Max(a, b) == IF a > b THEN a ELSE b

\* _calculate_saturation with inclusive upper ends (<= for <)
SaturationInclusive(num_competitors) ==
    IF num_competitors <= 5 THEN "very_low"
    ELSE IF num_competitors <= 10 THEN "low"
    ELSE IF num_competitors <= 20 THEN "medium"
    ELSE IF num_competitors <= 40 THEN "high"
    ELSE "very_high"

\* lines 247-258
_calculate_saturation(num_competitors) ==
    IF num_competitors < 5 THEN "very_low"
    ELSE IF num_competitors < 10 THEN "low"
    ELSE IF num_competitors < 20 THEN "medium"
    ELSE IF num_competitors < 40 THEN "high"
    ELSE "very_high"

\* the penalty with the last branch adding 7 instead of subtracting it
PenaltyLastBranchAdds(num_competitors) ==
    IF num_competitors < 5 THEN 0
    ELSE IF num_competitors < 10 THEN 1
    ELSE IF num_competitors < 20 THEN 3
    ELSE IF num_competitors < 40 THEN 5
    ELSE -7

\* lines 264-276: the competition penalty
CompetitionPenalty(num_competitors) ==
    IF num_competitors < 5 THEN 0
    ELSE IF num_competitors < 10 THEN 1
    ELSE IF num_competitors < 20 THEN 3
    ELSE IF num_competitors < 40 THEN 5
    ELSE 7

\* the bonus with inclusive price limits (<= 20, >= 50)
PricingBonusInclusive(avg_price) ==
    IF Gt(avg_price, FromInt(0))
    THEN IF Leq(avg_price, FromInt(20)) THEN 1
         ELSE IF Geq(avg_price, FromInt(50)) THEN 1
         ELSE 0
    ELSE 0

\* lines 278-283: the bonus for a clear pricing opportunity
PricingBonus(avg_price) ==
    IF Gt(avg_price, FromInt(0))
    THEN IF Lt(avg_price, FromInt(20)) THEN 1
         ELSE IF Gt(avg_price, FromInt(50)) THEN 1
         ELSE 0
    ELSE 0

\* the score returned without the clamp
NoClamp(score) == score

\* line 285: max(0, min(score, 10))
ClampScore(score) == Max(0, Min(score, 10))

\* lines 262-285, on num_competitors (line 265) and analysis['avg_price']
OpportunityScore(num_competitors, avg_price) ==
    ClampScore(10 - CompetitionPenalty(num_competitors)
                  + PricingBonus(avg_price))

\* lines 260-285
_calculate_opportunity_score(a) ==
    OpportunityScore(Len(a.competitors), a.avg_price)

-----------------------------------------------------------------------------
(* Competitor records and the answers of the external sources.             *)
(* A record is [url, price, source]; url 0 is the empty string, price <<>> *)
(* is None and <<p>> is the float p.                                       *)

NoPrice == <<>>
Price(p) == <<p>>

\* program constants
DefaultMaxCompetitors == 20
SearchVariations == 3
GoogleLimit == 10
GumroadLimit == 10

\* bounds of the modelled environment
MaxSmallPage == 2
SmallCap == 2
LargeCap == 30

MaxCompetitorsOptions == {SmallCap, DefaultMaxCompetitors, LargeCap}

\* sizes of a search result page: a few small ones and the full page
GooglePageSizes == (0..MaxSmallPage) \cup {GoogleLimit}

\* how the first result of a page may differ from the others: its link has
\* an empty href, or its snippet quotes a price (_extract_price, line 163)
GoogleVariants == {"plain", "nolink", "priced"}

SnippetPrice == 20

\* a page of k results whose urls are base+1 .. base+k
GooglePage(k, base, variant) ==
    [i \in 1..k |-> [url    |-> IF variant = "nolink" /\ i = 1 THEN 0
                                ELSE base + i,
                     price  |-> IF variant = "priced" /\ i = 1
                                THEN Price(SnippetPrice) ELSE NoPrice,
                     source |-> "google"]]

\* what query number idx may return: results not seen before or the results
\* the first query ranks
GooglePages(idx) ==
    { GooglePage(k, base, variant) :
        k \in GooglePageSizes, base \in {0, GoogleLimit * (idx - 1)},
        variant \in GoogleVariants }

PriceValues == {0, 10, 20, 35, 50, 60}

\* prices of the marketplace records, repeated cyclically over the list
PricePatterns ==
    {<<NoPrice>>} \cup { <<Price(p)>> : p \in PriceValues }
    \cup {<<Price(10), NoPrice>>, <<Price(0), Price(40)>>}

\* marketplace records: the first has no link, the second links to the url
\* the search engine ranks first, the others are unseen urls
GumroadUrl(i) == IF i = 1 THEN 0 ELSE IF i = 2 THEN 1 ELSE 100 + i

GumroadResponse(k, pat) ==
    [i \in 1..k |-> [url    |-> GumroadUrl(i),
                     price  |-> pat[((i - 1) % Len(pat)) + 1],
                     source |-> "gumroad"]]

GumroadResponses ==
    { GumroadResponse(k, pat) : k \in 0..GumroadLimit, pat \in PricePatterns }

\* a query of a source: the request succeeds and the page parses to the
\* records in page, or session.get raises (timeout, connection error)
FailedFetch(source) == [source |-> source, ok |-> FALSE, page |-> <<>>]

GoogleFetches(idx) ==
    { [source |-> "google", ok |-> TRUE, page |-> p] : p \in GooglePages(idx) }
    \cup {FailedFetch("google")}

GumroadFetches ==
    { [source |-> "gumroad", ok |-> TRUE, page |-> g] : g \in GumroadResponses }
    \cup {FailedFetch("gumroad")}

\* _google_search without its try/except: a failed request raises
GoogleRaises(fetch) ==
    IF fetch.ok THEN [raised |-> FALSE, records |-> fetch.page]
    ELSE [raised |-> TRUE, records |-> <<>>]

\* lines 147-174: _google_search returns the parsed results, and [] when
\* anything raised; it never raises itself
_google_search(fetch) ==
    IF fetch.ok THEN [raised |-> FALSE, records |-> fetch.page]
    ELSE [raised |-> FALSE, records |-> <<>>]

\* _search_gumroad without its try/except: a failed request raises
GumroadRaises(fetch) ==
    IF fetch.ok THEN [raised |-> FALSE, records |-> fetch.page]
    ELSE [raised |-> TRUE, records |-> <<>>]

\* lines 176-206: _search_gumroad returns the parsed records, and what it
\* had collected (nothing, for a failed request) when anything raised
_search_gumroad(fetch) ==
    IF fetch.ok THEN [raised |-> FALSE, records |-> fetch.page]
    ELSE [raised |-> FALSE, records |-> <<>>]

-----------------------------------------------------------------------------
(* CompetitorAnalyzer._search_google_competitors and analyze_market        *)

\* lines 128-136: keep the first record of every non-empty url
RECURSIVE DedupFrom(_, _, _, _)
DedupFrom(comps, i, seen_urls, unique_competitors) ==
    IF i > Len(comps) THEN unique_competitors
    ELSE LET url == comps[i].url
         IN  IF url # 0 /\ url \notin seen_urls
             THEN DedupFrom(comps, i + 1, seen_urls \cup {url},
                            Append(unique_competitors, comps[i]))
             ELSE DedupFrom(comps, i + 1, seen_urls, unique_competitors)

\* the loop of lines 132-136 with insert(0, comp) for append(comp)
RECURSIVE DedupPrependFrom(_, _, _, _)
DedupPrependFrom(comps, i, seen_urls, unique_competitors) ==
    IF i > Len(comps) THEN unique_competitors
    ELSE LET url == comps[i].url
         IN  IF url # 0 /\ url \notin seen_urls
             THEN DedupPrependFrom(comps, i + 1, seen_urls \cup {url},
                                   <<comps[i]>> \o unique_competitors)
             ELSE DedupPrependFrom(comps, i + 1, seen_urls, unique_competitors)

DedupPrepending(comps) == DedupPrependFrom(comps, 1, {}, <<>>)

Dedup(comps) == DedupFrom(comps, 1, {}, <<>>)

\* s[:n]
Take(s, n) == SubSeq(s, 1, Min(Len(s), n))

\* lines 128-138
UniqueCompetitors(comps, max_results) == Take(Dedup(comps), max_results)

RECURSIVE SumSeq(_)
SumSeq(s) == IF s = <<>> THEN 0 ELSE Head(s) + SumSeq(Tail(s))

SeqMin(s) == CHOOSE x \in {s[i] : i \in 1..Len(s)} :
                 \A j \in 1..Len(s) : x <= s[j]
SeqMax(s) == CHOOSE x \in {s[i] : i \in 1..Len(s)} :
                 \A j \in 1..Len(s) : x >= s[j]

\* c.get('price') is truthy: present and not 0
PriceTruthy(c) == c.price # NoPrice /\ c.price[1] # 0

\* line 78
RECURSIVE PricesFrom(_, _)
PricesFrom(comps, i) ==
    IF i > Len(comps) THEN <<>>
    ELSE IF PriceTruthy(comps[i])
         THEN <<comps[i].price[1]>> \o PricesFrom(comps, i + 1)
         ELSE PricesFrom(comps, i + 1)

\* the comprehension started at the second competitor
PricesSkipFirst(comps) == PricesFrom(comps, 2)

Prices(comps) == PricesFrom(comps, 1)

\* lines 50-62
NewAnalysis ==
    [competitors       |-> <<>>,
     total_found       |-> 0,
     avg_price         |-> FromInt(0),
     price_range       |-> [min |-> 999, max |-> 0],
     market_saturation |-> "unknown",
     opportunity_score |-> 0]

\* lines 77-82
AnalyzePricing(a) ==
    LET prices == Prices(a.competitors)
    IN  IF prices # <<>>
        THEN [a EXCEPT !.avg_price = Div(SumSeq(prices), Len(prices)),
                       !.price_range = [min |-> SeqMin(prices),
                                        max |-> SeqMax(prices)]]
        ELSE a

\* lines 84-85
StoreSaturation(a) ==
    [a EXCEPT !.market_saturation = _calculate_saturation(Len(a.competitors))]

\* lines 87-88
StoreScore(a) ==
    [a EXCEPT !.opportunity_score = _calculate_opportunity_score(a)]

\* lines 73-88: the marketplace records are appended, then the statistics
FinishAnalysis(a, gumroad_competitors) ==
    StoreScore(StoreSaturation(AnalyzePricing(
        [a EXCEPT !.competitors = a.competitors \o gumroad_competitors])))

\* lines 50-62: the call starts with a fresh analysis dictionary
AnalyzeMarketStart ==
    /\ market_pc \in {"idle", "done", "raised"}
    /\ \E max_competitors \in MaxCompetitorsOptions :
           market_args' = [max_competitors |-> max_competitors]
    /\ analysis' = <<NewAnalysis>>
    /\ fetch_log' = <<>>
    /\ competitors' = <<>>
    /\ search_idx' = 1
    /\ market_pc' = "google"
    /\ UNCHANGED <<validator_vars, lookup_vars, pricing_vars, quick_vars,
                   translator_vars>>

\* lines 112-126, one iteration of the loop over search_terms[:3]; an
\* exception inside the try is caught at line 124 and the loop continues
\* with the next variation. When the loop ends, lines 128-138 and the
\* assignments of lines 66-68
GoogleSearch ==
    /\ market_pc = "google"
    /\ \E fetch \in GoogleFetches(search_idx) :
         LET out == _google_search(fetch)
             comps == IF out.raised THEN competitors
                      ELSE competitors \o out.records
             max_results == market_args.max_competitors
             break == ~out.raised /\ Len(comps) >= max_results
             \* line 122: time.sleep(2), reached without exception or break
             slept == ~out.raised /\ ~break
         IN  /\ fetch_log' = Append(fetch_log,
                                    [source |-> fetch.source, ok |-> fetch.ok,
                                     page |-> fetch.page, term |-> search_idx,
                                     slept |-> slept])
             /\ IF break \/ search_idx = SearchVariations
                THEN LET unique == UniqueCompetitors(comps, max_results)
                     IN  /\ analysis' = <<[analysis[1] EXCEPT
                                             !.competitors = unique,
                                             !.total_found = Len(unique)]>>
                         /\ competitors' = <<>>
                         /\ search_idx' = 1
                         /\ market_pc' = "gumroad"
                ELSE /\ competitors' = comps
                     /\ search_idx' = search_idx + 1
                     /\ UNCHANGED <<analysis, market_pc>>
    /\ UNCHANGED <<market_args, validator_vars, lookup_vars, pricing_vars,
                   quick_vars, translator_vars>>

\* lines 71-97; an exception out of _search_gumroad would leave
\* analyze_market, which has no handler of its own
SearchGumroad ==
    /\ market_pc = "gumroad"
    /\ \E fetch \in GumroadFetches :
         LET out == _search_gumroad(fetch)
         IN  /\ fetch_log' = Append(fetch_log,
                                    [source |-> fetch.source, ok |-> fetch.ok,
                                     page |-> fetch.page, term |-> 0,
                                     slept |-> FALSE])
             /\ IF out.raised
                THEN /\ market_pc' = "raised"
                     /\ UNCHANGED analysis
                ELSE /\ market_pc' = "done"
                     /\ analysis' = <<FinishAnalysis(analysis[1], out.records)>>
    /\ UNCHANGED <<market_args, search_idx, competitors, validator_vars,
                   lookup_vars, pricing_vars, quick_vars, translator_vars>>

-----------------------------------------------------------------------------
(* DiscoveryValidator.quick_validation_check                               *)

\* lines 324-331
CompScore(competitor_count) ==
    IF competitor_count < 5 THEN 10
    ELSE IF competitor_count < 10 THEN 8
    ELSE IF competitor_count < 20 THEN 6
    ELSE 3

\* lines 336-337: demand_scores.get(estimated_demand, 2)
DemandScore(estimated_demand) ==
    CASE estimated_demand = "low"    -> 0
      [] estimated_demand = "medium" -> 2
      [] estimated_demand = "high"   -> 4
      [] OTHER                       -> 2

\* lines 340-345
QuickRecommendation(score) ==
    IF score >= 8 THEN "STRONG: High potential. Proceed with discovery test."
    ELSE IF score >= 6
    THEN "MODERATE: Some potential. Worth testing with low budget."
    ELSE "WEAK: Low potential. Consider different niche/market."

\* lines 320-354
quick_validation_check(competitor_count, estimated_demand) ==
    LET score == CompScore(competitor_count) + DemandScore(estimated_demand)
    IN  [competitor_count  |-> competitor_count,
         estimated_demand  |-> estimated_demand,
         opportunity_score |-> score,
         recommendation    |-> QuickRecommendation(score)]

MaxQuickCount == 30

DemandInputs == {"low", "medium", "high", "seasonal"}

QuickValidationCheck ==
    /\ quick_pc = "pending"
    /\ quick_result' = <<quick_validation_check(quick_args.competitor_count,
                                                quick_args.estimated_demand)>>
    /\ quick_pc' = "returned"
    /\ UNCHANGED <<quick_args, validator_vars, market_vars, lookup_vars,
                   pricing_vars, translator_vars>>

-----------------------------------------------------------------------------
(* Translator (core/translator.py): dialect prices.  A price text is the    *)
(* sequence of its characters; a currency symbol is one element.            *)

DigitChars == <<"0", "1", "2", "3", "4", "5", "6", "7", "8", "9">>

IsDigit(ch) == \E k \in 1..Len(DigitChars) : DigitChars[k] = ch

DigitValue(ch) == (CHOOSE k \in 1..Len(DigitChars) : DigitChars[k] = ch) - 1

\* the table's euro sign, as the file spells it
EuroSymbol == "EUR-SIGN"

\* lines 11-93: currency_symbol and price_multiplier of each dialect
DIALECT_GUIDELINES ==
    [brazilian        |-> [currency_symbol |-> "R$",
                           price_multiplier |-> Rat(4, 10)],
     european         |-> [currency_symbol |-> EuroSymbol,
                           price_multiplier |-> Rat(65, 100)],
     latin_american   |-> [currency_symbol |-> "$",
                           price_multiplier |-> Rat(5, 10)],
     european_spanish |-> [currency_symbol |-> EuroSymbol,
                           price_multiplier |-> Rat(7, 10)],
     mexican          |-> [currency_symbol |-> "$",
                           price_multiplier |-> Rat(45, 100)],
     canadian         |-> [currency_symbol |-> "$",
                           price_multiplier |-> Rat(75, 100)],
     european_french  |-> [currency_symbol |-> EuroSymbol,
                           price_multiplier |-> Rat(9, 10)],
     swiss            |-> [currency_symbol |-> "CHF",
                           price_multiplier |-> Rat(11, 10)],
     standard         |-> [currency_symbol |-> EuroSymbol,
                           price_multiplier |-> Rat(85, 100)]]

\* lines 289-306; dialect "" stands for None
_get_dialect_info(language, dialect) ==
    IF dialect # "" /\ dialect \in DOMAIN DIALECT_GUIDELINES
    THEN DIALECT_GUIDELINES[dialect]
    ELSE [currency_symbol |-> EuroSymbol, price_multiplier |-> Rat(8, 10)]

\* line 328, re.search(r'(\d+(?:\.\d{2})?)'): the leftmost digit, 0 if none
MatchStart(text) ==
    IF \E k \in 1..Len(text) : IsDigit(text[k])
    THEN CHOOSE k \in 1..Len(text) :
             IsDigit(text[k]) /\ \A h \in 1..(k - 1) : ~IsDigit(text[h])
    ELSE 0

\* \d+ is greedy: the last digit of the run that starts at k
RECURSIVE RunEnd(_, _)
RunEnd(text, k) ==
    IF k < Len(text) /\ IsDigit(text[k + 1]) THEN RunEnd(text, k + 1) ELSE k

\* (?:\.\d{2})? matches after position e
HasCents(text, e) ==
    /\ e + 3 <= Len(text)
    /\ text[e + 1] = "."
    /\ IsDigit(text[e + 2])
    /\ IsDigit(text[e + 3])

\* int() of the digits text[k..e]
RECURSIVE IntOf(_, _, _)
IntOf(text, k, e) ==
    IF e < k THEN 0 ELSE IntOf(text, k, e - 1) * 10 + DigitValue(text[e])

\* line 332: float(price_match.group(1))
price_value(text) ==
    LET k == MatchStart(text)
        e == RunEnd(text, k)
    IN  IF HasCents(text, e)
        THEN Rat(IntOf(text, k, e) * 100 + IntOf(text, e + 2, e + 3), 100)
        ELSE FromInt(IntOf(text, k, e))

\* round() as math.floor
RoundDown(x) == {Floor(x)}

\* line 341, round(): the nearest integer. When the exact product is
\* halfway between two integers the float product lies on or just beside
\* the midpoint, and either neighbour can come out
RoundOutcomes(x) ==
    LET f == Floor(x)
        r == Sub(x, FromInt(f))
    IN  IF 2 * r.n < r.d THEN {f}
        ELSE IF 2 * r.n > r.d THEN {f + 1}
        ELSE {f, f + 1}

\* str() of a non-negative int
RECURSIVE IntToChars(_)
IntToChars(n) ==
    IF n < 10 THEN <<DigitChars[n + 1]>>
    ELSE IntToChars(n \div 10) \o <<DigitChars[(n % 10) + 1]>>

\* lines 325-346: the texts the call can return
adjust_price_for_dialect(original_price, language, dialect) ==
    IF MatchStart(original_price) = 0 THEN {original_price}
    ELSE LET dialect_info == _get_dialect_info(language, dialect)
             adjusted_price == Mul(price_value(original_price),
                                   dialect_info.price_multiplier)
         IN  { <<dialect_info.currency_symbol>> \o IntToChars(rounded) :
                   rounded \in RoundOutcomes(adjusted_price) }

-----------------------------------------------------------------------------
(* Translator.translate_funnel.  A text is a sequence of words; a dict that *)
(* is shared lives in heap and is held by reference.                        *)

\* lines 232-287, _translate_with_dialect: whatever the AI helper answers;
\* here the text marked with the target language, or the text as it was
TranslationsOf(text, target_language) ==
    {<<target_language>> \o text, text}

\* the AI helper's answers for the joined bullets, as lines: each bullet
\* translated, the same with an empty line in between, or the bullets as
\* they were
BulletAnswers(bullets, target_language) ==
    LET each == [k \in 1..Len(bullets) |-> <<target_language>> \o bullets[k]]
    IN  {each, <<<<>>>> \o each, bullets}

\* line 162: [b.strip() for b in ... if b.strip()]
NonEmptyLines(lines) == SelectSeq(lines, LAMBDA b : b # <<>>)

\* the English blueprints handed to the translator
Headline == <<"Sleep", "better">>
Subheadlines == {<<>>, <<"In", "7", "days">>}
Bullets == <<<<"Fall", "asleep">>, <<"Wake", "rested">>>>
Cta == <<"Get", "it">>

PriceTexts ==
    {<<>>,
     <<"$", "2", "7">>,
     <<"2", "7">>,
     <<"$", "2", "5">>,
     <<"$", "4", "5">>,
     <<"$", "0">>,
     <<"$", "1", "9", ".", "9", "9">>,
     <<"$", "1", "2", ".", "5", "0">>,
     <<"$", "2", "7", ".", "5">>,
     <<"$", "1", ",", "2", "9", "9">>,
     <<"9", "7", " ", "U", "S", "D">>,
     <<"f", "r", "e", "e">>}

Blueprints ==
    [headline : {Headline}, subheadline : Subheadlines, bullets : {Bullets},
     cta : {Cta}, price : PriceTexts]

\* the dialect argument: the keys of the table, None ("") and a dialect the
\* table does not have
DialectInputs == DOMAIN DIALECT_GUIDELINES \cup {"", "austrian"}

TranslatorArgs ==
    [target_language : {"french", "german"}, dialect : DialectInputs,
     adjust_price : BOOLEAN]

\* lines 104-185. translated is funnel_blueprint.copy(), a new dict whose
\* 'components' entry is the same dict as the blueprint's (line 128); the
\* assignments of lines 136-180 go to that dict
TranslateFunnel ==
    /\ translator_pc = "pending"
    /\ LET ref == funnel_blueprint[1].components
           components == heap[ref]
           lang == translator_args.target_language
           dialect == translator_args.dialect
       IN  \E headline \in TranslationsOf(components.headline, lang),
              subheadline \in
                  (IF components.subheadline # <<>>
                   THEN TranslationsOf(components.subheadline, lang)
                   ELSE {components.subheadline}),
              answer \in BulletAnswers(components.bullets, lang),
              cta \in TranslationsOf(components.cta, lang),
              price \in
                  (IF translator_args.adjust_price /\ components.price # <<>>
                   THEN adjust_price_for_dialect(components.price, lang,
                                                 dialect)
                   ELSE {components.price}) :
             /\ heap' = [heap EXCEPT ![ref] =
                            [headline    |-> headline,
                             subheadline |-> subheadline,
                             bullets     |-> NonEmptyLines(answer),
                             cta         |-> cta,
                             price       |-> price]]
             /\ translator_result' =
                    <<[language   |-> lang,
                       dialect    |-> dialect,
                       components |-> ref]>>
    /\ translator_pc' = "translate_funnel"
    /\ UNCHANGED <<funnel_blueprint, blueprint_en, translator_args,
                   validator_vars, market_vars, lookup_vars, pricing_vars,
                   quick_vars>>

\* the call adjust_price_for_dialect(price, target_language, dialect) on the
\* price of the blueprint
AdjustPriceForDialect ==
    /\ translator_pc = "pending"
    /\ \E out \in adjust_price_for_dialect(
                      heap[funnel_blueprint[1].components].price,
                      translator_args.target_language,
                      translator_args.dialect) :
           translator_result' = <<out>>
    /\ translator_pc' = "adjust_price_for_dialect"
    /\ UNCHANGED <<heap, funnel_blueprint, blueprint_en, translator_args,
                   validator_vars, market_vars, lookup_vars, pricing_vars,
                   quick_vars>>

-----------------------------------------------------------------------------
(* CompetitorAnalyzer.get_pricing_recommendation                           *)

DefaultAvgPrice == 27

\* line 352: 0.85
BelowAverage == Rat(85, 100)

\* line 361
preferred_endings == <<7, 9, 97, 99>>

\* lines 365-368
Candidate(ending, recommended) ==
    IF ending < 10
    THEN Trunc(DivRat(recommended, FromInt(10))) * 10 + ending
    ELSE Trunc(DivRat(recommended, FromInt(100))) * 100 + ending

\* lines 364-371: the loop over the endings, final_price as it stands
RECURSIVE NearestEndingFrom(_, _, _)
NearestEndingFrom(recommended, i, final_price) ==
    IF i > Len(preferred_endings) THEN final_price
    ELSE LET candidate == FromInt(Candidate(preferred_endings[i], recommended))
         IN  IF Lt(AbsRat(Sub(candidate, recommended)),
                   AbsRat(Sub(final_price, recommended)))
             THEN NearestEndingFrom(recommended, i + 1, candidate)
             ELSE NearestEndingFrom(recommended, i + 1, final_price)

\* lines 360-371: final_price starts as recommended itself (line 362)
RoundToPreferredEnding(recommended) ==
    NearestEndingFrom(recommended, 1, recommended)

\* lines 346-378; the rationale divides by avg_price (line 377)
get_pricing_recommendation(args) ==
    LET avg_price == IF args.avg_price = <<>> THEN FromInt(DefaultAvgPrice)
                     ELSE args.avg_price[1]
        base == IF Gt(avg_price, FromInt(0)) THEN Mul(avg_price, BelowAverage)
                ELSE FromInt(DefaultAvgPrice)
        recommended == Mul(base, args.market_multiplier)
        final_price == RoundToPreferredEnding(recommended)
    IN  IF avg_price.n = 0
        THEN [raised |-> TRUE, error |-> "ZeroDivisionError"]
        ELSE [raised            |-> FALSE,
              recommended_price |-> final_price,
              competitor_avg    |-> avg_price,
              rationale_percent |->
                  RoundHalfEven(Mul(DivRat(Sub(avg_price, final_price),
                                           avg_price), FromInt(100)))]

\* the avg_price entries of the analyses handed in: none, 0 (no priced
\* competitor) and averages
AvgPriceInputs ==
    {<<>>} \cup { <<FromInt(p)>> : p \in {0, 10, 27, 30, 50, 100, 120, 1000} }
    \cup {<<Rat(59, 2)>>, <<Rat(1, 2)>>}

\* the market multipliers: 1.0 (the default) and price multipliers of the
\* markets
MultiplierInputs ==
    {FromInt(1), Rat(4, 10), Rat(45, 100), Rat(5, 10), Rat(65, 100),
     Rat(7, 10), Rat(75, 100), Rat(8, 10), Rat(85, 100), Rat(9, 10),
     Rat(11, 10)}

GetPricingRecommendation ==
    /\ pricing_pc = "pending"
    /\ LET out == get_pricing_recommendation(pricing_args)
       IN  /\ pricing_result' = <<out>>
           /\ pricing_pc' = IF out.raised THEN "raised" ELSE "returned"
    /\ UNCHANGED <<pricing_args, validator_vars, market_vars, lookup_vars,
                   quick_vars, translator_vars>>

-----------------------------------------------------------------------------
(* MarketAnalyzer (core/market_analyzer.py): the lookup-mode score and the *)
(* rankings built on it.                                                   *)

\* lines 11-27
NICHES ==
    <<"sleep", "productivity", "fitness", "weight loss", "relationships",
      "dating", "money", "investing", "business", "side hustle",
      "mental health", "anxiety", "confidence", "communication", "parenting">>

\* lines 30-37: MARKETS.keys() in insertion order, and the table itself
MarketKeys ==
    <<"english", "french", "german", "spanish", "italian", "portuguese">>

MARKETS ==
    [english    |-> [code |-> "en", countries |-> <<"US", "UK", "CA", "AU">>,
                     saturation |-> "high"],
     french     |-> [code |-> "fr", countries |-> <<"FR", "BE", "CH", "CA">>,
                     saturation |-> "medium"],
     german     |-> [code |-> "de", countries |-> <<"DE", "AT", "CH">>,
                     saturation |-> "medium"],
     spanish    |-> [code |-> "es", countries |-> <<"ES", "MX", "AR", "CO">>,
                     saturation |-> "medium"],
     italian    |-> [code |-> "it", countries |-> <<"IT">>,
                     saturation |-> "low"],
     portuguese |-> [code |-> "pt", countries |-> <<"PT", "BR">>,
                     saturation |-> "low"]]

\* lines 83-84: MARKETS.get(target_market, {}).get('saturation', 'high')
SaturationOf(target_market) ==
    IF target_market \in DOMAIN MARKETS THEN MARKETS[target_market].saturation
    ELSE "high"

\* score_map with a default of 8 for an unknown label
ScoreMapGetDefaultLow(saturation) ==
    CASE saturation = "low" -> 8
      [] saturation = "medium" -> 7
      [] saturation = "high" -> 5
      [] OTHER -> 8

\* lines 87-93: score_map.get(saturation, 5)
ScoreMapGet(saturation) ==
    CASE saturation = "low" -> 8
      [] saturation = "medium" -> 7
      [] saturation = "high" -> 5
      [] OTHER -> 5

\* line 96
high_demand_niches == {"sleep", "productivity", "fitness", "money", "anxiety"}

\* lines 93-100 on the saturation label found
LookupScore(saturation, niche) ==
    Min(ScoreMapGet(saturation)
            + (IF niche \in high_demand_niches THEN 1 ELSE 0), 10)

\* lines 72-100: MarketAnalyzer._calculate_opportunity_score
MarketAnalyzer_calculate_opportunity_score(niche, target_market) ==
    LookupScore(SaturationOf(target_market), niche)

\* the position at which e enters a list sorted by descending score: behind
\* every entry whose score is at least e.score
RECURSIVE InsertPos(_, _, _)
InsertPos(sorted, e, i) ==
    IF i > Len(sorted) THEN i
    ELSE IF sorted[i].score < e.score THEN i
    ELSE InsertPos(sorted, e, i + 1)

InsertAt(s, e, i) == SubSeq(s, 1, i - 1) \o <<e>> \o SubSeq(s, i, Len(s))

\* a sort that sorts ascending and reverses the list: equal scores end up in
\* reverse input order
RECURSIVE SortReversingTies(_)
SortReversingTies(entries) ==
    IF entries = <<>> THEN <<>>
    ELSE LET rest == SortReversingTies(Tail(entries))
             e == Head(entries)
         IN  InsertAt(rest, e, InsertPos(rest, e, 1))

\* lines 165 and 248: list.sort(key=score, reverse=True), a stable sort
RECURSIVE SortByScoreFrom(_, _, _)
SortByScoreFrom(entries, i, sorted) ==
    IF i > Len(entries) THEN sorted
    ELSE SortByScoreFrom(entries, i + 1,
             InsertAt(sorted, entries[i], InsertPos(sorted, entries[i], 1)))

SortByScore(entries) == SortByScoreFrom(entries, 1, <<>>)

\* lines 149-162: one entry per market except english, in MARKETS order
RECURSIVE OpportunitiesFrom(_, _)
OpportunitiesFrom(niche, i) ==
    IF i > Len(MarketKeys) THEN <<>>
    ELSE IF MarketKeys[i] = "english" THEN OpportunitiesFrom(niche, i + 1)
    ELSE <<[market     |-> MarketKeys[i],
            score      |-> MarketAnalyzer_calculate_opportunity_score(
                               niche, MarketKeys[i]),
            saturation |-> MARKETS[MarketKeys[i]].saturation,
            countries  |-> MARKETS[MarketKeys[i]].countries]>>
         \o OpportunitiesFrom(niche, i + 1)

\* lines 137-173
compare_markets(niche) == SortByScore(OpportunitiesFrom(niche, 1))

\* lines 239-246
Suggestions(target_market) ==
    [i \in 1..Len(NICHES) |->
        [niche |-> NICHES[i],
         score |-> MarketAnalyzer_calculate_opportunity_score(
                       NICHES[i], target_market)]]

\* lines 227-254
suggest_niches(target_market) == SortByScore(Suggestions(target_market))

\* arguments: the listed niches and markets and one unlisted of each
NicheInputs == {NICHES[i] : i \in 1..Len(NICHES)} \cup {"cooking"}
MarketInputs == {MarketKeys[i] : i \in 1..Len(MarketKeys)} \cup {"japanese"}

\* lines 43-70: analyze_gap(niche, target_market)
AnalyzeGap ==
    /\ lookup_pc = "pending"
    /\ lookup_pc' = "analyze_gap"
    /\ lookup_result' =
         <<[niche             |-> lookup_args.niche,
            target_market     |-> lookup_args.target_market,
            opportunity_score |-> MarketAnalyzer_calculate_opportunity_score(
                                      lookup_args.niche,
                                      lookup_args.target_market)]>>
    /\ UNCHANGED <<lookup_args, validator_vars, market_vars, pricing_vars,
                   quick_vars, translator_vars>>

\* lines 137-173: compare_markets(niche)
CompareMarkets ==
    /\ lookup_pc = "pending"
    /\ lookup_pc' = "compare_markets"
    /\ lookup_result' = compare_markets(lookup_args.niche)
    /\ UNCHANGED <<lookup_args, validator_vars, market_vars, pricing_vars,
                   quick_vars, translator_vars>>

\* lines 227-254: suggest_niches(target_market)
SuggestNiches ==
    /\ lookup_pc = "pending"
    /\ lookup_pc' = "suggest_niches"
    /\ lookup_result' = suggest_niches(lookup_args.target_market)
    /\ UNCHANGED <<lookup_args, validator_vars, market_vars, pricing_vars,
                   quick_vars, translator_vars>>

-----------------------------------------------------------------------------
(* Specifications: one per component, the other component idle.            *)

\* a validator with the default thresholds and a call about to be made on
\* it; no market analysis is running
InitValidator ==
    /\ test_input \in TestInputs
    /\ test_call = "pending"
    /\ results = <<>>
    /\ market_pc = "idle"
    /\ market_args = [max_competitors |-> DefaultMaxCompetitors]
    /\ search_idx = 1
    /\ competitors = <<>>
    /\ analysis = <<>>
    /\ fetch_log = <<>>
    /\ lookup_args = [niche |-> "sleep", target_market |-> "french"]
    /\ lookup_pc = "none"
    /\ lookup_result = <<>>
    /\ scale_args = [scale_multiplier |-> FromInt(DefaultScaleMultiplier)]
    /\ scale_call = "none"
    /\ scale_result = <<>>
    /\ pricing_args = [avg_price |-> <<>>, market_multiplier |-> FromInt(1)]
    /\ pricing_pc = "none"
    /\ pricing_result = <<>>
    /\ quick_args = [competitor_count |-> 0, estimated_demand |-> "medium"]
    /\ quick_pc = "none"
    /\ quick_result = <<>>
    /\ heap = <<>>
    /\ funnel_blueprint = <<>>
    /\ blueprint_en = <<>>
    /\ translator_args = <<>>
    /\ translator_pc = "none"
    /\ translator_result = <<>>

\* an analyzer on which analyze_market is about to be called; nothing is
\* called on the validator
InitMarket ==
    /\ test_input = <<0, 0, 0, 0>>
    /\ test_call = "none"
    /\ results = <<>>
    /\ market_pc = "idle"
    /\ market_args = [max_competitors |-> DefaultMaxCompetitors]
    /\ search_idx = 1
    /\ competitors = <<>>
    /\ analysis = <<>>
    /\ fetch_log = <<>>
    /\ lookup_args = [niche |-> "sleep", target_market |-> "french"]
    /\ lookup_pc = "none"
    /\ lookup_result = <<>>
    /\ scale_args = [scale_multiplier |-> FromInt(DefaultScaleMultiplier)]
    /\ scale_call = "none"
    /\ scale_result = <<>>
    /\ pricing_args = [avg_price |-> <<>>, market_multiplier |-> FromInt(1)]
    /\ pricing_pc = "none"
    /\ pricing_result = <<>>
    /\ quick_args = [competitor_count |-> 0, estimated_demand |-> "medium"]
    /\ quick_pc = "none"
    /\ quick_result = <<>>
    /\ heap = <<>>
    /\ funnel_blueprint = <<>>
    /\ blueprint_en = <<>>
    /\ translator_args = <<>>
    /\ translator_pc = "none"
    /\ translator_result = <<>>

\* a market analyzer on which one of its methods is about to be called
InitLookup ==
    /\ test_input = <<0, 0, 0, 0>>
    /\ test_call = "none"
    /\ results = <<>>
    /\ market_pc = "idle"
    /\ market_args = [max_competitors |-> DefaultMaxCompetitors]
    /\ search_idx = 1
    /\ competitors = <<>>
    /\ analysis = <<>>
    /\ fetch_log = <<>>
    /\ lookup_args \in [niche : NicheInputs, target_market : MarketInputs]
    /\ lookup_pc = "pending"
    /\ lookup_result = <<>>
    /\ scale_args = [scale_multiplier |-> FromInt(DefaultScaleMultiplier)]
    /\ scale_call = "none"
    /\ scale_result = <<>>
    /\ pricing_args = [avg_price |-> <<>>, market_multiplier |-> FromInt(1)]
    /\ pricing_pc = "none"
    /\ pricing_result = <<>>
    /\ quick_args = [competitor_count |-> 0, estimated_demand |-> "medium"]
    /\ quick_pc = "none"
    /\ quick_result = <<>>
    /\ heap = <<>>
    /\ funnel_blueprint = <<>>
    /\ blueprint_en = <<>>
    /\ translator_args = <<>>
    /\ translator_pc = "none"
    /\ translator_result = <<>>

\* an analyzer on which get_pricing_recommendation is about to be called
InitPricing ==
    /\ test_input = <<0, 0, 0, 0>>
    /\ test_call = "none"
    /\ results = <<>>
    /\ market_pc = "idle"
    /\ market_args = [max_competitors |-> DefaultMaxCompetitors]
    /\ search_idx = 1
    /\ competitors = <<>>
    /\ analysis = <<>>
    /\ fetch_log = <<>>
    /\ lookup_args = [niche |-> "sleep", target_market |-> "french"]
    /\ lookup_pc = "none"
    /\ lookup_result = <<>>
    /\ scale_args = [scale_multiplier |-> FromInt(DefaultScaleMultiplier)]
    /\ scale_call = "none"
    /\ scale_result = <<>>
    /\ pricing_args \in [avg_price : AvgPriceInputs,
                         market_multiplier : MultiplierInputs]
    /\ pricing_pc = "pending"
    /\ pricing_result = <<>>
    /\ quick_args = [competitor_count |-> 0, estimated_demand |-> "medium"]
    /\ quick_pc = "none"
    /\ quick_result = <<>>
    /\ heap = <<>>
    /\ funnel_blueprint = <<>>
    /\ blueprint_en = <<>>
    /\ translator_args = <<>>
    /\ translator_pc = "none"
    /\ translator_result = <<>>

\* a validator on which quick_validation_check is about to be called
InitQuick ==
    /\ test_input = <<0, 0, 0, 0>>
    /\ test_call = "none"
    /\ results = <<>>
    /\ market_pc = "idle"
    /\ market_args = [max_competitors |-> DefaultMaxCompetitors]
    /\ search_idx = 1
    /\ competitors = <<>>
    /\ analysis = <<>>
    /\ fetch_log = <<>>
    /\ lookup_args = [niche |-> "sleep", target_market |-> "french"]
    /\ lookup_pc = "none"
    /\ lookup_result = <<>>
    /\ scale_args = [scale_multiplier |-> FromInt(DefaultScaleMultiplier)]
    /\ scale_call = "none"
    /\ scale_result = <<>>
    /\ pricing_args = [avg_price |-> <<>>, market_multiplier |-> FromInt(1)]
    /\ pricing_pc = "none"
    /\ pricing_result = <<>>
    /\ quick_args \in [competitor_count : 0..MaxQuickCount,
                       estimated_demand : DemandInputs]
    /\ quick_pc = "pending"
    /\ quick_result = <<>>
    /\ heap = <<>>
    /\ funnel_blueprint = <<>>
    /\ blueprint_en = <<>>
    /\ translator_args = <<>>
    /\ translator_pc = "none"
    /\ translator_result = <<>>

\* a translator about to be called on an English blueprint, as full_automation
\* stores it (orchestrator.py lines 112-117); blueprint_en remembers its
\* components
InitTranslator ==
    /\ test_input = <<0, 0, 0, 0>>
    /\ test_call = "none"
    /\ results = <<>>
    /\ market_pc = "idle"
    /\ market_args = [max_competitors |-> DefaultMaxCompetitors]
    /\ search_idx = 1
    /\ competitors = <<>>
    /\ analysis = <<>>
    /\ fetch_log = <<>>
    /\ lookup_args = [niche |-> "sleep", target_market |-> "french"]
    /\ lookup_pc = "none"
    /\ lookup_result = <<>>
    /\ scale_args = [scale_multiplier |-> FromInt(DefaultScaleMultiplier)]
    /\ scale_call = "none"
    /\ scale_result = <<>>
    /\ pricing_args = [avg_price |-> <<>>, market_multiplier |-> FromInt(1)]
    /\ pricing_pc = "none"
    /\ pricing_result = <<>>
    /\ quick_args = [competitor_count |-> 0, estimated_demand |-> "medium"]
    /\ quick_pc = "none"
    /\ quick_result = <<>>
    /\ heap \in [{1} -> Blueprints]
    /\ funnel_blueprint = <<[language |-> "english", components |-> 1]>>
    /\ blueprint_en = <<heap[1]>>
    /\ translator_args \in TranslatorArgs
    /\ translator_pc = "pending"
    /\ translator_result = <<>>

NextValidator == AnalyzeTestResults \/ CalculateScaleUpBudget

NextMarket == AnalyzeMarketStart \/ GoogleSearch \/ SearchGumroad

SpecValidator == InitValidator /\ [][NextValidator]_vars

SpecMarket == InitMarket /\ [][NextMarket]_vars

NextLookup == AnalyzeGap \/ CompareMarkets \/ SuggestNiches

SpecLookup == InitLookup /\ [][NextLookup]_vars

NextPricing == GetPricingRecommendation

SpecPricing == InitPricing /\ [][NextPricing]_vars

NextQuick == QuickValidationCheck

SpecQuick == InitQuick /\ [][NextQuick]_vars

NextTranslator == TranslateFunnel \/ AdjustPriceForDialect

SpecTranslator == InitTranslator /\ [][NextTranslator]_vars

-----------------------------------------------------------------------------
(* Properties of DiscoveryValidator.analyze_test_results (SpecValidator).  *)

Returned == test_call = "returned"

\* the number of criteria that are true in a passed_criteria dictionary
TrueCriteria(pc) == Cardinality({f \in DOMAIN pc : pc[f]})

\* C1: the decision is a function of the number of true criteria alone:
\* 3 or 4 give GO, exactly 2 gives OPTIMIZE, 0 or 1 give NO-GO, whatever the
\* impressions, clicks, conversions and spend.
C1_DecisionByCount ==
    Returned =>
        LET r == results[1]
            k == TrueCriteria(r.passed_criteria)
        IN  /\ DOMAIN r.passed_criteria =
                 {"sufficient_clicks", "ctr_good", "cpa_good",
                  "conversion_rate_good"}
            /\ k >= 3 => r.decision = "GO"
            /\ k = 2 => r.decision = "OPTIMIZE"
            /\ k <= 1 => r.decision = "NO-GO"

C1_Witness ==
    /\ Returned
    /\ TrueCriteria(results[1].passed_criteria) = 3
    /\ results[1].decision = "GO"

\* C2: every call returns a result whose decision is GO, OPTIMIZE or NO-GO,
\* never the placeholder 'unknown', and whose recommendation is the fixed
\* non-empty text of that decision.
C2_DecisionNeverUnknown ==
    test_call # "pending" =>
        /\ Returned
        /\ results[1].decision \in {"GO", "OPTIMIZE", "NO-GO"}
        /\ results[1].recommendation # ""
        /\ results[1].decision = "GO" =>
               results[1].recommendation = RecommendationGo
        /\ results[1].decision = "OPTIMIZE" =>
               results[1].recommendation = RecommendationOptimize
        /\ results[1].decision = "NO-GO" =>
               results[1].recommendation = RecommendationNoGo

C2_Witness ==
    /\ Returned
    /\ TrueCriteria(results[1].passed_criteria) = 0
    /\ results[1].decision = "NO-GO"
    /\ results[1].recommendation = RecommendationNoGo

\* C3: the criteria are clicks >= 50, ctr >= 0.02, (conversions > 0 and
\* cpa <= 15) and conversion_rate >= 0.01 on the reported metrics, every
\* comparison inclusive.
C3_CriteriaInclusive ==
    Returned =>
        LET r == results[1]
            m == r.metrics
            pc == r.passed_criteria
        IN  /\ pc.sufficient_clicks <=> r.clicks >= 50
            /\ pc.ctr_good <=> 100 * m.ctr.n >= 2 * m.ctr.d
            /\ pc.cpa_good <=> (r.conversions > 0 /\ m.cpa.n <= 15 * m.cpa.d)
            /\ pc.conversion_rate_good <=>
                   100 * m.conversion_rate.n >= m.conversion_rate.d

\* three metrics exactly on their thresholds, all three passing
C3_Witness ==
    /\ Returned
    /\ results[1].metrics.ctr = [n |-> 1, d |-> 50]
    /\ results[1].metrics.cpa = [n |-> 15, d |-> 1]
    /\ results[1].metrics.conversion_rate = [n |-> 1, d |-> 100]
    /\ results[1].passed_criteria.ctr_good
    /\ results[1].passed_criteria.cpa_good
    /\ results[1].passed_criteria.conversion_rate_good

\* C4: with conversions = 0 the call returns, cpa is the infinite sentinel
\* (not 0, not a division error) and cpa_good is false, for every spend.
C4_ZeroConversionsCpa ==
    (test_call # "pending" /\ test_input[3] = 0) =>
        /\ Returned
        /\ results[1].metrics.cpa = Inf
        /\ results[1].metrics.cpa # FromInt(0)
        /\ ~results[1].passed_criteria.cpa_good

C4_Witness ==
    /\ Returned
    /\ test_input[3] = 0
    /\ test_input[4] = 0
    /\ results[1].metrics.cpa = Inf
    /\ ~results[1].passed_criteria.cpa_good

\* C5: no zero denominator makes the call fail: impressions = 0 gives
\* ctr = 0, clicks = 0 gives conversion_rate = 0 and cost_per_click = 0, and
\* a complete result with a decision is returned in every case.
C5_NoZeroDivision ==
    test_call # "pending" =>
        /\ Returned
        /\ test_input[1] = 0 => results[1].metrics.ctr = FromInt(0)
        /\ test_input[2] = 0 =>
               /\ results[1].metrics.conversion_rate = FromInt(0)
               /\ results[1].metrics.cost_per_click = FromInt(0)
        /\ \A f \in {"ctr", "conversion_rate", "cpa", "cost_per_click"} :
               results[1].metrics[f] # DivError
        /\ results[1].decision \in {"GO", "OPTIMIZE", "NO-GO"}

C5_Witness ==
    /\ Returned
    /\ test_input = <<0, 0, 0, 0>>
    /\ results[1].metrics.ctr = FromInt(0)
    /\ results[1].metrics.conversion_rate = FromInt(0)
    /\ results[1].metrics.cost_per_click = FromInt(0)
    /\ results[1].decision = "NO-GO"

\* C6: the two documented evaluations: (10000, 60, 2, 40) passes exactly
\* sufficient_clicks and conversion_rate and is OPTIMIZE; (5000, 150, 10, 80)
\* passes all four criteria and is GO.
C6_DocumentedCases ==
    /\ (test_call # "pending" /\ test_input = <<10000, 60, 2, 40>>) =>
           /\ Returned
           /\ results[1].passed_criteria =
                  [sufficient_clicks |-> TRUE, ctr_good |-> FALSE,
                   cpa_good |-> FALSE, conversion_rate_good |-> TRUE]
           /\ results[1].decision = "OPTIMIZE"
    /\ (test_call # "pending" /\ test_input = <<5000, 150, 10, 80>>) =>
           /\ Returned
           /\ results[1].passed_criteria =
                  [sufficient_clicks |-> TRUE, ctr_good |-> TRUE,
                   cpa_good |-> TRUE, conversion_rate_good |-> TRUE]
           /\ results[1].decision = "GO"

C6_Witness ==
    /\ Returned
    /\ test_input = <<10000, 60, 2, 40>>
    /\ results[1].metrics.ctr = [n |-> 3, d |-> 500]
    /\ results[1].metrics.cpa = [n |-> 20, d |-> 1]
    /\ results[1].decision = "OPTIMIZE"

-----------------------------------------------------------------------------
(* Properties of the saturation tier and the live-mode score (SpecMarket). *)

MarketDone == market_pc = "done"

\* competitor counts and average prices on which the two private functions
\* are also evaluated directly; these evaluations do not depend on the state
\* and are made once, in the initial state
MarketIdle == market_pc = "idle"

MaxCompetitorCount == 45

AvgPriceSamples ==
    {FromInt(0), Rat(1, 2), FromInt(19), Rat(39, 2), FromInt(20),
     Rat(41, 2), FromInt(35), Rat(99, 2), FromInt(50), Rat(101, 2),
     FromInt(60)}

\* the tier table of the documentation
Tier(n) ==
    CASE n < 5 -> "very_low"
      [] 5 <= n /\ n < 10 -> "low"
      [] 10 <= n /\ n < 20 -> "medium"
      [] 20 <= n /\ n < 40 -> "high"
      [] n >= 40 -> "very_high"

\* the penalty schedule and the bonus rule of the documentation
DocPenalty(n) ==
    CASE n < 5 -> 0
      [] 5 <= n /\ n < 10 -> 1
      [] 10 <= n /\ n < 20 -> 3
      [] 20 <= n /\ n < 40 -> 5
      [] n >= 40 -> 7

DocBonus(p) ==
    IF (p.n > 0 /\ p.n < 20 * p.d) \/ p.n > 50 * p.d THEN 1 ELSE 0

DocScore(n, p) ==
    LET raw == 10 - DocPenalty(n) + DocBonus(p)
    IN  IF raw < 0 THEN 0 ELSE IF raw > 10 THEN 10 ELSE raw

\* C7: the saturation tier is the step function of the competitor count
\* (very_low below 5, low below 10, medium below 20, high below 40, else
\* very_high; 4,5,9,10,19,20,39,40 give very_low, low, low, medium, medium,
\* high, high, very_high), and the market_saturation of a returned analysis
\* is that function of the length of its competitors list.
C7_SaturationTiers ==
    /\ MarketIdle =>
           \A n \in 0..MaxCompetitorCount : _calculate_saturation(n) = Tier(n)
    /\ <<_calculate_saturation(4), _calculate_saturation(5),
         _calculate_saturation(9), _calculate_saturation(10),
         _calculate_saturation(19), _calculate_saturation(20),
         _calculate_saturation(39), _calculate_saturation(40)>>
       = <<"very_low", "low", "low", "medium", "medium", "high", "high",
           "very_high">>
    /\ MarketDone =>
           analysis[1].market_saturation = Tier(Len(analysis[1].competitors))

C7_Witness ==
    /\ MarketDone
    /\ Len(analysis[1].competitors) = 40
    /\ analysis[1].market_saturation = "very_high"

\* C8: the live-mode score is clamp(10 - penalty(n) + bonus(avg_price), 0,
\* 10) with penalty 0, 1, 3, 5, 7 on the saturation breakpoints and bonus 1
\* exactly when 0 < avg_price < 20 or avg_price > 50 (none at 0, 20 or 50).
C8_ScoreFormula ==
    /\ MarketIdle =>
           \A n \in 0..MaxCompetitorCount, p \in AvgPriceSamples :
               OpportunityScore(n, p) = DocScore(n, p)
    /\ MarketDone =>
           analysis[1].opportunity_score =
               DocScore(Len(analysis[1].competitors), analysis[1].avg_price)

\* a returned analysis on a penalty tier whose average price is exactly 20
C8_Witness ==
    /\ MarketDone
    /\ Len(analysis[1].competitors) >= 20
    /\ analysis[1].avg_price = FromInt(20)
    /\ analysis[1].opportunity_score = 5

\* C9: the live-mode score lies in [0, 10] for every competitor count and
\* every non-negative average price, also as stored in a returned analysis.
C9_ScoreBounds ==
    /\ MarketIdle =>
           \A n \in 0..MaxCompetitorCount, p \in AvgPriceSamples :
               0 <= OpportunityScore(n, p) /\ OpportunityScore(n, p) <= 10
    /\ MarketDone =>
           /\ 0 <= analysis[1].opportunity_score
           /\ analysis[1].opportunity_score <= 10

\* no penalty and a bonus: 11 before the clamp
C9_Witness ==
    /\ MarketDone
    /\ Len(analysis[1].competitors) < 5
    /\ analysis[1].avg_price = FromInt(10)
    /\ analysis[1].opportunity_score = 10

\* C10: for a fixed average price the live-mode score does not increase
\* with the competitor count, in particular across 5, 10, 20 and 40.
C10_ScoreMonotone ==
    /\ MarketIdle =>
           \A p \in AvgPriceSamples :
             \A n1 \in 0..MaxCompetitorCount, n2 \in 0..MaxCompetitorCount :
               n1 <= n2 => OpportunityScore(n2, p) <= OpportunityScore(n1, p)
    /\ MarketDone =>
           \A n1 \in 0..Len(analysis[1].competitors) :
               analysis[1].opportunity_score <=
                   OpportunityScore(n1, analysis[1].avg_price)

\* a returned analysis at the breakpoint 40 scoring strictly below 39
C10_Witness ==
    /\ MarketDone
    /\ Len(analysis[1].competitors) = 40
    /\ analysis[1].opportunity_score <
           OpportunityScore(39, analysis[1].avg_price)

-----------------------------------------------------------------------------
(* Properties of MarketAnalyzer (SpecLookup).                              *)

\* the base value of a market as documented: by its saturation label
DocBase(target_market) ==
    CASE target_market \in {"italian", "portuguese"} -> 8
      [] target_market \in {"french", "german", "spanish"} -> 7
      [] target_market = "english" -> 5
      [] OTHER -> 5

DocBoost(niche) ==
    IF niche \in {"sleep", "productivity", "fitness", "money", "anxiety"}
    THEN 1 ELSE 0

DocCap(x) == IF x > 10 THEN 10 ELSE x

\* C11: the lookup-mode score is the base value of the target market's
\* saturation label (low 8, medium 7, high 5, and 5 for a market or a label
\* that is not in the table) plus 1 for a high-demand niche, capped at 10.
C11_LookupScore ==
    /\ \A niche \in NicheInputs :
           /\ LookupScore("low", niche) = DocCap(8 + DocBoost(niche))
           /\ LookupScore("medium", niche) = DocCap(7 + DocBoost(niche))
           /\ LookupScore("high", niche) = DocCap(5 + DocBoost(niche))
           /\ LookupScore("very_low", niche) = DocCap(5 + DocBoost(niche))
    /\ lookup_pc = "analyze_gap" =>
           lookup_result[1].opportunity_score =
               DocCap(DocBase(lookup_args.target_market)
                          + DocBoost(lookup_args.niche))

\* an unlisted market and a high-demand niche: 5 + 1
C11_Witness ==
    /\ lookup_pc = "analyze_gap"
    /\ lookup_args.target_market = "japanese"
    /\ lookup_args.niche = "anxiety"
    /\ lookup_result[1].opportunity_score = 6

\* the position of x in the sequence s
IndexIn(s, x) == CHOOSE i \in 1..Len(s) : s[i] = x

\* C12: compare_markets and suggest_niches return their entries by
\* descending score, entries of equal score in input order (the order of
\* MARKETS, respectively of NICHES), and the result holds every scored
\* input exactly once (every market but english, every niche).
C12_StableRanking ==
    /\ lookup_pc = "compare_markets" =>
         LET L == lookup_result
         IN  /\ Len(L) = 5
             /\ {L[i].market : i \in 1..Len(L)} =
                    {"french", "german", "spanish", "italian", "portuguese"}
             /\ \A i \in 1..Len(L) :
                    L[i].score = DocCap(DocBase(L[i].market)
                                            + DocBoost(lookup_args.niche))
             /\ \A i \in 1..Len(L), j \in 1..Len(L) :
                    i < j =>
                        /\ L[i].score >= L[j].score
                        /\ L[i].score = L[j].score =>
                               IndexIn(MarketKeys, L[i].market)
                                   < IndexIn(MarketKeys, L[j].market)
    /\ lookup_pc = "suggest_niches" =>
         LET L == lookup_result
         IN  /\ Len(L) = Len(NICHES)
             /\ {L[i].niche : i \in 1..Len(L)} =
                    {NICHES[i] : i \in 1..Len(NICHES)}
             /\ \A i \in 1..Len(L) :
                    L[i].score = DocCap(DocBase(lookup_args.target_market)
                                            + DocBoost(L[i].niche))
             /\ \A i \in 1..Len(L), j \in 1..Len(L) :
                    i < j =>
                        /\ L[i].score >= L[j].score
                        /\ L[i].score = L[j].score =>
                               IndexIn(NICHES, L[i].niche)
                                   < IndexIn(NICHES, L[j].niche)

\* a ranking with ties: the low-saturation markets first, each group in the
\* order of MARKETS
C12_Witness ==
    /\ lookup_pc = "compare_markets"
    /\ lookup_result[1].market = "italian"
    /\ lookup_result[2].market = "portuguese"
    /\ lookup_result[3].market = "french"
    /\ lookup_result[4].market = "german"
    /\ lookup_result[5].market = "spanish"
    /\ lookup_result[1].score > lookup_result[3].score

-----------------------------------------------------------------------------
\* Properties of the aggregation of analyze_market (SpecMarket)

\* the records the sources returned to this call, in the order of discovery
RECURSIVE DiscoveredFrom(_, _)
DiscoveredFrom(log, i) ==
    IF i > Len(log) THEN <<>>
    ELSE log[i].page \o DiscoveredFrom(log, i + 1)

Discovered == DiscoveredFrom(fetch_log, 1)

\* the competitors list of the returned analysis
Final == analysis[1].competitors

\* the position of the first record of s with this url
FirstIndex(s, url) ==
    CHOOSE k \in 1..Len(s) :
        s[k].url = url /\ \A j \in 1..(k - 1) : s[j].url # url

UrlLess(s) == {i \in 1..Len(s) : s[i].url = 0}

\* C13: in the returned analysis no two competitors, from whichever source,
\* have the same non-empty url; the record kept for a url is the first one
\* discovered with it, and the list is in discovery order.
C13_UniqueUrls ==
    MarketDone =>
        LET L == Final
            D == Discovered
        IN  /\ \A i \in 1..Len(L), j \in 1..Len(L) :
                   (i < j /\ L[i].url # 0) => L[i].url # L[j].url
            /\ \A i \in 1..Len(L) :
                   L[i].url # 0 => L[i] = D[FirstIndex(D, L[i].url)]
            /\ \A i \in 1..Len(L), j \in 1..Len(L) :
                   (i < j /\ L[i].url # 0 /\ L[j].url # 0) =>
                       FirstIndex(D, L[i].url) <= FirstIndex(D, L[j].url)

\* C14: when the sources returned no more records than the cap, every
\* url-less record they returned is in the returned list.
C14_UrlLessKept ==
    MarketDone =>
        (Len(Discovered) <= market_args.max_competitors =>
            Cardinality(UrlLess(Final)) = Cardinality(UrlLess(Discovered)))

\* the aggregation as documented: duplicates of a url removed, url-less
\* records kept, first-seen order
RECURSIVE DocDedupFrom(_, _, _)
DocDedupFrom(D, i, seen) ==
    IF i > Len(D) THEN <<>>
    ELSE IF D[i].url # 0 /\ D[i].url \in seen
         THEN DocDedupFrom(D, i + 1, seen)
         ELSE <<D[i]>> \o DocDedupFrom(D, i + 1, seen \cup {D[i].url})

DocDedup(D) == DocDedupFrom(D, 1, {})

\* C15: the returned list is never longer than max_competitors, and when
\* the deduplicated discovery is longer than the cap, the list is its first
\* max_competitors records.
C15_Capped ==
    MarketDone =>
        LET max_results == market_args.max_competitors
            U == DocDedup(Discovered)
        IN  /\ Len(Final) <= max_results
            /\ Len(U) > max_results => Final = SubSeq(U, 1, max_results)

\* C16: in the returned analysis total_found is the length of competitors.
C16_TotalFound ==
    MarketDone => analysis[1].total_found = Len(analysis[1].competitors)

-----------------------------------------------------------------------------
\* Properties of the price statistics of analyze_market (SpecMarket)

\* the prices of the competitors that have one, 0 included
RECURSIVE PresentPricesFrom(_, _)
PresentPricesFrom(L, i) ==
    IF i > Len(L) THEN <<>>
    ELSE IF L[i].price # NoPrice
         THEN <<L[i].price[1]>> \o PresentPricesFrom(L, i + 1)
         ELSE PresentPricesFrom(L, i + 1)

PresentPrices(L) == PresentPricesFrom(L, 1)

\* C17: avg_price is the arithmetic mean of the prices of all competitors
\* that have a price, a price of 0 included.
C17_MeanOfPresent ==
    MarketDone =>
        LET P == PresentPrices(Final)
        IN  P # <<>> => analysis[1].avg_price = Div(SumSeq(P), Len(P))

\* C18 as stated: avg_price is 0 exactly when no competitor has a price.
C18_AvgZeroIffUnpriced ==
    MarketDone =>
        (analysis[1].avg_price = FromInt(0) <=> PresentPrices(Final) = <<>>)

\* C18, amended: avg_price is 0 exactly when no competitor has a non-zero
\* price; a competitor whose price is absent or 0 leaves it at 0.
C18_AvgZeroIffNoNonZeroPrice ==
    MarketDone =>
        (analysis[1].avg_price = FromInt(0) <=>
            \A i \in 1..Len(Final) :
                Final[i].price = NoPrice \/ Final[i].price[1] = 0)

\* a returned analysis whose only prices are 0: a price is present and
\* avg_price is 0
C18_Witness ==
    /\ MarketDone
    /\ \E i \in 1..Len(Final) : Final[i].price = Price(0)
    /\ \A i \in 1..Len(Final) : Final[i].price \in {NoPrice, Price(0)}
    /\ analysis[1].avg_price = FromInt(0)

\* C19: without a priced competitor avg_price is 0 and price_range is
\* {min: 0, max: 0}; with one, price_range holds the smallest and the
\* largest present price, so min <= max.
C19_PriceRange ==
    MarketDone =>
        LET P == PresentPrices(Final)
            a == analysis[1]
        IN  /\ P = <<>> =>
                /\ a.avg_price = FromInt(0)
                /\ a.price_range = [min |-> 0, max |-> 0]
            /\ P # <<>> =>
                /\ a.price_range.min = SeqMin(P)
                /\ a.price_range.max = SeqMax(P)
                /\ a.price_range.min <= a.price_range.max

-----------------------------------------------------------------------------
\* Properties of failing sources (SpecMarket)

\* the search-engine queries of this call, and their accumulated records
GoogleQueries == {i \in 1..Len(fetch_log) : fetch_log[i].source = "google"}

RECURSIVE GoogleRecordsFrom(_, _)
GoogleRecordsFrom(log, i) ==
    IF i > Len(log) THEN <<>>
    ELSE IF log[i].source = "google"
         THEN log[i].page \o GoogleRecordsFrom(log, i + 1)
         ELSE GoogleRecordsFrom(log, i + 1)

GoogleRecords == GoogleRecordsFrom(fetch_log, 1)

Urls(s) == {s[i].url : i \in 1..Len(s)} \ {0}

\* C20: a failing query never leaves analyze_market as an error. In the
\* returned analysis a failed query has contributed no record; the search
\* variations after a failed one were still queried (all of them, unless
\* the cap was reached) and so was the marketplace; the linked results of
\* the queries that succeeded are in the list unless the cap cuts them, and
\* so is every marketplace record; the statistics are filled in; and when
\* every query failed the list is empty.
C20_FailuresContained ==
    /\ market_pc # "raised"
    /\ MarketDone =>
        LET log == fetch_log
            max_results == market_args.max_competitors
            last == log[Len(log)]
        IN  /\ last.source = "gumroad"
            /\ GoogleQueries = 1..(Len(log) - 1)
            /\ \/ Len(log) - 1 = SearchVariations
               \/ Len(GoogleRecords) >= max_results
            /\ \A i \in 1..Len(Final) : \E k \in 1..Len(log) :
                   /\ log[k].ok
                   /\ \E j \in 1..Len(log[k].page) : log[k].page[j] = Final[i]
            /\ Cardinality(Urls(GoogleRecords)) <= max_results =>
                   \A u \in Urls(GoogleRecords) :
                       \E i \in 1..Len(Final) :
                           Final[i].url = u /\ Final[i].source = "google"
            /\ Len(Final) >= Len(last.page)
            /\ SubSeq(Final, Len(Final) - Len(last.page) + 1, Len(Final))
                   = last.page
            /\ analysis[1].market_saturation # "unknown"
            /\ (\A k \in 1..Len(log) : ~log[k].ok) =>
                   /\ Final = <<>>
                   /\ analysis[1].total_found = 0

\* the first search query and the marketplace query failed, the second
\* search query returned results, and they are in the returned analysis
C20_Witness ==
    /\ MarketDone
    /\ Len(fetch_log) = SearchVariations + 1
    /\ ~fetch_log[1].ok
    /\ fetch_log[2].ok
    /\ Len(fetch_log[2].page) = GoogleLimit
    /\ ~fetch_log[Len(fetch_log)].ok
    /\ Len(Final) >= GoogleLimit

-----------------------------------------------------------------------------
\* Properties of get_pricing_recommendation (SpecPricing)

PricingReturned == pricing_pc = "returned"

\* the preferred-ending candidates of the documentation for a recommended
\* value: endings 7 and 9 on its decade, 97 and 99 on its century, in the
\* order they are tested
DocCandidates(recommended) ==
    LET decade == Floor(DivRat(recommended, FromInt(10))) * 10
        century == Floor(DivRat(recommended, FromInt(100))) * 100
    IN  <<decade + 7, decade + 9, century + 97, century + 99>>

Distance(x, y) == AbsRat(Sub(x, y))

\* C21: for avg_price > 0 the recommended price is a preferred-ending
\* candidate of recommended = avg_price * 0.85 * market_multiplier, none of
\* the candidates is nearer to recommended, and of the nearest ones it is
\* the first tested; for avg_price = 30 and multiplier 1.0 it is 27.
C21_NearestPreferredEnding ==
    (PricingReturned /\ pricing_args.avg_price # <<>>) =>
        LET recommended == Mul(Mul(pricing_args.avg_price[1], Rat(85, 100)),
                               pricing_args.market_multiplier)
            cands == DocCandidates(recommended)
            price == pricing_result[1].recommended_price
        IN  /\ \E i \in 1..Len(cands) :
                   /\ price = FromInt(cands[i])
                   /\ \A j \in 1..Len(cands) :
                          Leq(Distance(price, recommended),
                              Distance(FromInt(cands[j]), recommended))
                   /\ \A j \in 1..(i - 1) :
                          Lt(Distance(price, recommended),
                             Distance(FromInt(cands[j]), recommended))
            /\ (pricing_args.avg_price = <<FromInt(30)>>
                    /\ pricing_args.market_multiplier = FromInt(1)) =>
                   price = FromInt(27)

\* C22: with avg_price 0 or absent the call returns, and the price it
\* recommends is the one obtained from recommended = 27 * 0.85 *
\* market_multiplier, the same in both cases.
C22_DefaultAverage ==
    (pricing_pc \in {"returned", "raised"}
        /\ pricing_args.avg_price \in {<<>>, <<FromInt(0)>>}) =>
        /\ pricing_pc = "returned"
        /\ pricing_result[1].recommended_price =
               RoundToPreferredEnding(
                   Mul(Mul(FromInt(27), Rat(85, 100)),
                       pricing_args.market_multiplier))

-----------------------------------------------------------------------------
\* Properties of calculate_scale_up_budget (SpecValidator)

\* the scale-up call has returned, respectively has been made
Scaled == scale_call = "returned"
ScaleCalled == scale_call # "none"

\* C23: the projection is new_daily_budget = daily_budget *
\* scale_multiplier, estimated_daily_conversions = (new_daily_budget /
\* cost_per_click) * conversion_rate and estimated_daily_cost =
\* estimated_daily_conversions * cpa on the metrics of the test, unclamped;
\* with cost_per_click = 0 the call fails instead of returning a projection.
C23_ScaleUpProjection ==
    /\ ScaleCalled =>
         (results[1].metrics.cost_per_click = FromInt(0) <=>
              scale_call = "raised")
    /\ Scaled =>
         LET m == results[1].metrics
             r == scale_result[1]
             budget == Mul(FromInt(15), scale_args.scale_multiplier)
             per_day == Mul(DivRat(budget, m.cost_per_click),
                            m.conversion_rate)
         IN  /\ r.new_daily_budget = budget
             /\ r.scale_multiplier = scale_args.scale_multiplier
             /\ r.estimated_daily_conversions = per_day
             /\ r.estimated_daily_cost =
                    IF m.cpa # Inf THEN Mul(per_day, m.cpa)
                    ELSE IF per_day = FromInt(0) THEN NaN ELSE Inf

\* a projection at the default multiplier from a test with conversions
C23_Witness ==
    /\ Scaled
    /\ scale_args.scale_multiplier = FromInt(3)
    /\ scale_result[1].new_daily_budget = FromInt(45)
    /\ results[1].metrics.cost_per_click = Rat(1, 2)
    /\ results[1].metrics.conversion_rate = Rat(1, 50)
    /\ scale_result[1].estimated_daily_conversions = Rat(9, 5)

\* C27: with the default thresholds a GO result has conversions > 0,
\* clicks > 0, a finite cpa and a non-zero conversion_rate, and a projection
\* made from it holds neither inf nor nan.
C27_GoHasConversions ==
    /\ (Returned /\ results[1].decision = "GO") =>
         /\ results[1].conversions > 0
         /\ results[1].clicks > 0
         /\ results[1].metrics.cpa # Inf
         /\ results[1].metrics.conversion_rate # FromInt(0)
    /\ (Scaled /\ results[1].decision = "GO") =>
         /\ scale_result[1].estimated_daily_cost \notin {Inf, NaN}
         /\ scale_result[1].estimated_daily_conversions # FromInt(0)

\* a GO from three criteria, the click criterion failed, and its projection
C27_Witness ==
    /\ Scaled
    /\ results[1].decision = "GO"
    /\ ~results[1].passed_criteria.sufficient_clicks
    /\ results[1].conversions = 1
    /\ scale_result[1].estimated_daily_cost # Inf

-----------------------------------------------------------------------------
\* Properties of quick_validation_check (SpecQuick)

\* C30: the opportunity_score of quick_validation_check lies in [0, 10] for
\* every competitor count and every demand value.
C30_QuickScoreOutOfTen ==
    quick_pc = "returned" =>
        /\ quick_result[1].opportunity_score >= 0
        /\ quick_result[1].opportunity_score <= 10

-----------------------------------------------------------------------------
\* Properties of the de-duplication and of the pacing (SpecMarket)

Records(s) == {s[i] : i \in 1..Len(s)}

\* the search loop has ended: its records are aggregated
Aggregated == market_pc = "gumroad"

\* C25: de-duplicating a result list concatenated with itself gives the
\* same set of records as de-duplicating it once, and de-duplicating a
\* de-duplicated list returns it unchanged, in the same order; for the
\* records the search queries returned and for the list aggregated from
\* them.
C25_DedupIdempotent ==
    Aggregated =>
        LET L == GoogleRecords
        IN  /\ Records(Dedup(L \o L)) = Records(Dedup(L))
            /\ Dedup(Dedup(L)) = Dedup(L)
            /\ Dedup(analysis[1].competitors) = analysis[1].competitors

\* two queries returned the same three results: six records, three kept
C25_Witness ==
    /\ Aggregated
    /\ Len(GoogleRecords) = 2 * Len(Dedup(GoogleRecords))
    /\ Len(Dedup(GoogleRecords)) >= 2
    /\ Dedup(GoogleRecords \o GoogleRecords) = Dedup(GoogleRecords)

\* C26: the search queries of a call are the variations 1, 2, ... in this
\* order, each once, at most 3 of them, and every query that is followed by
\* another one was followed by the pacing delay first, failed or not.
C26_PacedQueries ==
    /\ Cardinality(GoogleQueries) <= SearchVariations
    /\ \A i \in GoogleQueries :
           /\ fetch_log[i].term = i
           /\ (i + 1) \in GoogleQueries => fetch_log[i].slept
    /\ market_pc = "google" =>
           /\ GoogleQueries = 1..Len(fetch_log)
           /\ search_idx = Len(fetch_log) + 1
           /\ \A i \in GoogleQueries : fetch_log[i].slept

\* a failed first query, the delay, then the second query
C26_Witness ==
    /\ Len(fetch_log) >= 2
    /\ ~fetch_log[1].ok
    /\ fetch_log[1].slept
    /\ fetch_log[2].source = "google"
    /\ fetch_log[2].term = 2

-----------------------------------------------------------------------------
\* Properties of the Translator (SpecTranslator)

\* the static per-dialect table of the documentation: multiplier and
\* currency symbol; any other dialect, or none, gets the standard-language
\* fallback
DocDialects ==
    [brazilian        |-> <<Rat(40, 100), "R$">>,
     european         |-> <<Rat(65, 100), EuroSymbol>>,
     latin_american   |-> <<Rat(50, 100), "$">>,
     european_spanish |-> <<Rat(70, 100), EuroSymbol>>,
     mexican          |-> <<Rat(45, 100), "$">>,
     canadian         |-> <<Rat(75, 100), "$">>,
     european_french  |-> <<Rat(90, 100), EuroSymbol>>,
     swiss            |-> <<Rat(110, 100), "CHF">>,
     standard         |-> <<Rat(85, 100), EuroSymbol>>]

DocDialect(dialect) ==
    IF dialect \in DOMAIN DocDialects THEN DocDialects[dialect]
    ELSE <<Rat(80, 100), EuroSymbol>>

HasNumericToken(text) == \E k \in 1..Len(text) : IsDigit(text[k])

\* the value of the first numeric token of a text: its first run of
\* digits, in hundredths, with the two decimals that follow it if any
DocTokenCents(text) ==
    LET k == CHOOSE k \in 1..Len(text) :
                 IsDigit(text[k]) /\ \A h \in 1..(k - 1) : ~IsDigit(text[h])
        e == CHOOSE e \in k..Len(text) :
                 /\ \A h \in k..e : IsDigit(text[h])
                 /\ e = Len(text) \/ ~IsDigit(text[e + 1])
        whole == IntOf(text, k, e)
        decimals == e + 3 <= Len(text) /\ text[e + 1] = "."
                        /\ IsDigit(text[e + 2]) /\ IsDigit(text[e + 3])
    IN  IF decimals
        THEN 100 * whole + 10 * DigitValue(text[e + 2])
                 + DigitValue(text[e + 3])
        ELSE 100 * whole

C29_BlueprintUnchanged ==
    translator_pc = "translate_funnel" =>
        /\ heap[funnel_blueprint[1].components] = blueprint_en[1]
        /\ funnel_blueprint[1].language = "english"

=============================================================================
